---- MODULE Spec2Model ----
(***************************************************************************)
(* Model of the duopow Telegram bot (src/bot/src/main.rs): the dialogue    *)
(* dispatch tree, the linking handlers and the reconciliation handlers     *)
(* check / update / register / unregister, together with the off-chain     *)
(* profile service and the on-chain registry they talk to.                 *)
(*                                                                         *)
(* Every handler is cut at its awaits on the profile API and on the chain  *)
(* RPC: one action per such call.  Sends and deletes of chat messages are  *)
(* part of the step they follow and are assumed to succeed.                *)
(***************************************************************************)
EXTENDS Integers, Sequences, FiniteSets, TLC

\* Largest XP value the off-chain profile may show.
MaxXp == 2

\* Largest number of submitted chain transactions not yet mined or dropped.
MaxPending == 1

\* Largest number of reconciliation commands one conversation sends in a
\* behaviour of SpecRecon.
MaxPasses == 3

\* Largest number of reconciliation commands two conversations send in a
\* behaviour of SpecRace.
MaxRacePasses == 2

\* Largest number of inbound chat messages in one behaviour of the linking flow.
MaxLinkEvents == 5

\* Largest number of texts in a bio the profile service holds when the bot
\* starts.
MaxBioLen == 2

\* Largest number of inbound chat messages in one behaviour of SpecBot.
MaxBotEvents == 4

\* Conversations (msg.chat.id).
Chats == {"c1", "c2"}

XpValues == 0..MaxXp

(***************************************************************************)
(* Addresses.  Address is the 20-byte value; its text forms differ in the  *)
(* casing of the hex digits.                                               *)
(***************************************************************************)
ZeroAddress == "0x0000"

Addresses == {"0x1111", "0x2222"}

NoAddress == "none"

\* Casings of a 0x + 40 hex digit text: the EIP-55 checksum casing, all
\* lower case, all upper case, and a mixed casing that is not the checksum.
Casings == {"checksum", "lower", "upper", "mixed"}

(***************************************************************************)
(* Texts.  A text is a record; form says what the characters are:          *)
(*   "word"    a plain word (val), such as a username                      *)
(*   "hex40"   0x followed by 40 hex digits of address val in casing arg   *)
(*   "jwt"     a credential; val is its shape, sub the id in its payload   *)
(*   "command" a bot command /val with argument arg                        *)
(***************************************************************************)
Word(w) == [form |-> "word", val |-> w, arg |-> "", sub |-> 0]

AddressText(a, casing) == [form |-> "hex40", val |-> a, arg |-> casing, sub |-> 0]

Jwt(shape, uid) == [form |-> "jwt", val |-> shape, arg |-> "", sub |-> uid]

CommandText(cmd, username) == [form |-> "command", val |-> cmd, arg |-> username, sub |-> 0]

NoText == [form |-> "none", val |-> "", arg |-> "", sub |-> 0]

\* ETH_ADDRESS: the regular expression 0x[0-9a-fA-F]{40}.  A bio is a
\* sequence of texts; the matches of the expression are its hex40 texts.
ETH_ADDRESS(t) == t.form = "hex40"

\* ETH_ADDRESS.is_match
is_match(bio) == \E i \in 1..Len(bio) : ETH_ADDRESS(bio[i])

\* ETH_ADDRESS.find: the index of the leftmost match (0 when there is none).
find(bio) == IF is_match(bio) THEN CHOOSE i \in 1..Len(bio) : ETH_ADDRESS(bio[i]) /\ \A j \in 1..(i - 1) : ~ETH_ADDRESS(bio[j]) ELSE 0

\* A replace that rewrites the rightmost match instead.
replace_last(bio, t) == [bio EXCEPT ![CHOOSE i \in 1..Len(bio) : ETH_ADDRESS(bio[i]) /\ \A j \in (i + 1)..Len(bio) : ~ETH_ADDRESS(bio[j])] = t]

\* ETH_ADDRESS.replace: replaces the leftmost match only.
replace(bio, t) == [bio EXCEPT ![find(bio)] = t]

\* str::parse::<Address>: hex decoding, any casing.
parse_address(t) == IF t.form = "hex40" THEN t.val ELSE NoAddress

\* ethers::utils::to_checksum
to_checksum(a) == AddressText(a, "checksum")

\* ethers::utils::parse_checksummed: the text must equal its own checksum
\* rendering.
parse_checksummed(t) == IF t.form = "hex40" /\ t = to_checksum(t.val) THEN t.val ELSE NoAddress

(***************************************************************************)
(* The off-chain profile service.                                          *)
(***************************************************************************)
Ids == {7, 42}

Handles == {"alice", "bob", "nobody"}

NotFound == 0

\* GET /users?username= : the id of the user the collection holds, NotFound
\* for an empty collection.
Directory(username) == CASE username = "alice" -> 42 [] username = "bob" -> 7 [] OTHER -> NotFound

InitialBio(uid) == IF uid = 42 THEN <<Word("hi"), AddressText("0x1111", "checksum")>> ELSE <<Word("hi")>>

\* The texts a bio is made of, and the bios a user may have written.
BioTexts == {Word("hi")} \cup {AddressText(a, k) : a \in Addresses, k \in {"checksum", "lower"}}

Bios == UNION {[1..n -> BioTexts] : n \in 0..MaxBioLen}

\* The shapes of a credential text: a token whose payload decodes to
\* {"sub": <id>}, and the three ways get_uid_from_jwt fails.
JwtShapes == {"ok", "nodot", "badb64", "nosub"}

\* get_uid_from_jwt: the id, or NotFound where the function panics.
get_uid_from_jwt(t) == IF t.form = "jwt" /\ t.val = "ok" THEN t.sub ELSE NotFound

(***************************************************************************)
(* Inbound chat messages.  A message has a text or has none (a photo, a    *)
(* sticker); a text that starts with a known command parses as a command.  *)
(***************************************************************************)
TextMessage(t) == [has_text |-> TRUE, text |-> t]

OtherMessage == [has_text |-> FALSE, text |-> NoText]

\* BotCommand
PlainCommands == {"help", "link", "cancel"}

UsernameCommands == {"register", "unregister", "update", "check"}

CommandTexts == {CommandText(cmd, "") : cmd \in PlainCommands} \cup {CommandText(cmd, h) : cmd \in UsernameCommands, h \in Handles}

PlainTexts == {Word(h) : h \in Handles} \cup {AddressText(a, k) : a \in Addresses, k \in Casings} \cup {Jwt("ok", uid) : uid \in Ids} \cup {Jwt(shape, 0) : shape \in JwtShapes \ {"ok"}}

Messages == {TextMessage(t) : t \in CommandTexts \cup PlainTexts} \cup {OtherMessage}

\* teloxide::filter_command::<BotCommand, _>
filter_command(m) == m.has_text /\ m.text.form = "command"

(***************************************************************************)
(* ChatState                                                               *)
(***************************************************************************)
Start == [tag |-> "Start", username |-> NoText, address |-> NoAddress]

LinkReceiveUsername == [tag |-> "LinkReceiveUsername", username |-> NoText, address |-> NoAddress]

LinkReceiveAddress(username) == [tag |-> "LinkReceiveAddress", username |-> username, address |-> NoAddress]

LinkReceiveJwt(username, address) == [tag |-> "LinkReceiveJwt", username |-> username, address |-> address]

(***************************************************************************)
(* State.                                                                  *)
(***************************************************************************)
VARIABLES
    session,    \* InMemStorage<ChatState>: the ChatState of each conversation
    task,       \* the handler running for each conversation, with its locals
    bio,        \* off-chain: the bio of each user id
    totalXp,    \* off-chain: the totalXp of each user id
    users,      \* on-chain: users(id) = (address, xp)
    pending,    \* transactions submitted to the chain and not yet mined
    flow,       \* per conversation: what the linking flow has done so far
    events,     \* number of messages received so far
    dropped     \* history: the transaction the chain dropped last (recorded
                \* in SpecSelfHeal only)

vars == <<session, task, bio, totalXp, users, pending, flow, events, dropped>>

\* The locals of a handler (task): msg and state are the message and the
\* ChatState it was dispatched with; issued and got are the reads of the
\* off-chain XP ("total_xp") and of the on-chain record ("users") the
\* handler has sent and has the result of; writes are the write calls it has
\* made; sent are the chat messages it has sent.

\* A chat message sent by the bot.  amount is the number shown in it; with
\* wrapped the number shown is 2^64 - amount.
Say(text) == [text |-> text, amount |-> 0, wrapped |-> FALSE]

SayAmount(text, amount, wrapped) == [text |-> text, amount |-> amount, wrapped |-> wrapped]

\* A write call: a contract transaction, or the PATCH of a bio.
Call(op, uid, address, xp) == [op |-> op, id |-> uid, address |-> address, xp |-> xp]

\* No transaction.
NoCall == Call("none", 0, NoAddress, 0)

Unregistered == [address |-> ZeroAddress, xp |-> 0]

IdleTask == [pc |-> "idle", msg |-> OtherMessage, state |-> Start, username |-> NoText, uid |-> 0, address |-> NoAddress, total_xp |-> 0, address_in_contract |-> NoAddress, xp_in_contract |-> 0, got |-> {}, issued |-> {}, failed |-> FALSE, original_bio |-> <<>>, writes |-> <<>>, sent |-> <<>>, result |-> "none"]

NoFlow == [stage |-> 0, fetch |-> 0, parse |-> 0, decode |-> 0, patch |-> 0, cancelled |-> FALSE, after_cancel |-> FALSE]

\* The records the contract may hold for an id.
Records == {Unregistered} \cup [address : Addresses, xp : XpValues]

\* The bot starts with every conversation in ChatState::default() and no
\* handler running.
InitBot ==
    /\ session = [c \in Chats |-> Start]
    /\ task = [c \in Chats |-> IdleTask]
    /\ pending = <<>>
    /\ flow = [c \in Chats |-> NoFlow]
    /\ events = 0
    /\ dropped = NoCall

\* The profiles and the registry the bot finds when it starts: alice has
\* linked one address or the other, has any XP and any record on-chain; bob
\* has not linked and is not registered.
InitRecon ==
    /\ InitBot
    /\ \E a \in Addresses : bio = [uid \in Ids |-> IF uid = Directory("alice") THEN <<Word("hi"), to_checksum(a)>> ELSE <<Word("hi")>>]
    /\ \E xp \in XpValues : totalXp = [uid \in Ids |-> IF uid = Directory("alice") THEN xp ELSE 0]
    /\ \E r \in Records : users = [uid \in Ids |-> IF uid = Directory("alice") THEN r ELSE Unregistered]

\* Linking with any bio: alice has linked, bob's bio is any bio.
InitRewrite ==
    /\ InitBot
    /\ \E b \in Bios : bio = [uid \in Ids |-> IF uid = Directory("bob") THEN b ELSE InitialBio(uid)]
    /\ totalXp = [uid \in Ids |-> 0]
    /\ users = [uid \in Ids |-> Unregistered]

InitLink ==
    /\ InitBot
    /\ bio = [uid \in Ids |-> InitialBio(uid)]
    /\ totalXp = [uid \in Ids |-> 0]
    /\ users = [uid \in Ids |-> Unregistered]

\* The end of a handler: the messages it still sends and its result, "Ok",
\* "Err" (returned to the dispatcher's error handler, which logs it) or
\* "panic".
Finish(t, result, msgs) == [t EXCEPT !.pc = "done", !.result = result, !.sent = t.sent \o msgs]

\* A request of the handler has failed (ok says whether it succeeded).
Request(t, ok) == [t EXCEPT !.failed = t.failed \/ ~ok]

(***************************************************************************)
(* Profile lookups.  ok says whether the HTTP request succeeds.            *)
(***************************************************************************)
None == [some |-> FALSE, uid |-> 0, address |-> NoAddress]

Some(uid, address) == [some |-> TRUE, uid |-> uid, address |-> address]

\* get_user_by_username: the id of the user found, NotFound for an error.
get_user_by_username(username, ok) == IF ok /\ username.form = "word" THEN Directory(username.val) ELSE NotFound

get_user_uid_and_maybe_address(username, ok) ==
    LET uid == get_user_by_username(username, ok)
    IN  IF uid = NotFound THEN None
        ELSE IF find(bio[uid]) = 0 THEN None
        ELSE Some(uid, parse_address(bio[uid][find(bio[uid])]))

get_user_uid_and_address(username, ok) ==
    LET uid == get_user_by_username(username, ok)
    IN  IF uid = NotFound THEN None
        ELSE IF find(bio[uid]) = 0 THEN None
        ELSE IF parse_address(bio[uid][find(bio[uid])]) = NoAddress THEN None
        ELSE Some(uid, parse_address(bio[uid][find(bio[uid])]))

(***************************************************************************)
(* handler(): the dispatch tree.  The command branch has endpoints under   *)
(* case![ChatState::Start] only; a message it does not handle falls        *)
(* through to the branches of the three linking states.                    *)
(***************************************************************************)
handler(state, m) ==
    IF filter_command(m) /\ state.tag = "Start" THEN m.text.val
    ELSE IF state.tag = "LinkReceiveUsername" THEN "link_receive_username"
    ELSE IF state.tag = "LinkReceiveAddress" THEN "link_receive_address"
    ELSE IF state.tag = "LinkReceiveJwt" THEN "link_receive_jwt"
    ELSE "unhandled"

(***************************************************************************)
(* What the linking flow of a conversation has done since its link         *)
(* command: stage counts the messages of the sequence link, a username     *)
(* that resolves, a checksummed address, a well-formed credential received *)
(* so far in that order (0 once another message or a failed request        *)
(* interrupts it); fetch, parse, decode and patch count the username       *)
(* lookups, address parses, credential decodes and bio writes made since.  *)
(* cancelled: this message is a cancel command received outside Start;     *)
(* after_cancel: the message before it was.                                *)
(***************************************************************************)
Resolves(t) == t.form = "word" /\ Directory(t.val) # NotFound

NextStage(f, state, m) ==
    IF filter_command(m) /\ m.text.val = "link" /\ state.tag = "Start" THEN 1
    ELSE IF f.stage = 1 /\ m.has_text /\ Resolves(m.text) THEN 2
    ELSE IF f.stage = 2 /\ m.has_text /\ parse_checksummed(m.text) # NoAddress THEN 3
    ELSE IF f.stage = 3 /\ m.has_text /\ get_uid_from_jwt(m.text) # NotFound THEN 4
    ELSE 0

Observe(f, state, m) ==
    LET stage == NextStage(f, state, m)
        cancelled == filter_command(m) /\ m.text.val = "cancel" /\ state.tag # "Start"
    IN  [(IF stage > 1 THEN f ELSE NoFlow) EXCEPT !.stage = stage, !.cancelled = cancelled, !.after_cancel = f.cancelled]

\* One more call of the kind counted in a flow that is under way.
Counted(f, kind) == IF f.stage = 0 THEN f ELSE [f EXCEPT ![kind] = @ + 1]

\* A failed request interrupts the flow.
Interrupted(f, ok) == IF ok THEN f ELSE [NoFlow EXCEPT !.cancelled = f.cancelled, !.after_cancel = f.after_cancel]

(***************************************************************************)
(* The dispatcher: one message of a conversation at a time, in arrival     *)
(* order; the handler gets the ChatState read at dispatch.                 *)
(***************************************************************************)
Receive(c, m) ==
    /\ task[c].pc = "idle"
    /\ events' = events + 1
    /\ task' = [task EXCEPT ![c] = [IdleTask EXCEPT !.pc = handler(session[c], m), !.msg = m, !.state = session[c], !.username = Word(m.text.arg), !.result = "running"]]
    /\ flow' = [flow EXCEPT ![c] = Observe(@, session[c], m)]
    /\ UNCHANGED <<session, bio, totalXp, users, pending, dropped>>

\* A reconciliation command.
ReceiveCommand(c, m) ==
    /\ filter_command(m) /\ m.text.val \in UsernameCommands
    /\ Receive(c, m)

\* A message of the linking flow: any message, a reconciliation command
\* only while the flow is under way.
ReceiveLink(c, m) ==
    /\ events < MaxLinkEvents
    /\ filter_command(m) /\ m.text.val \in UsernameCommands => session[c].tag # "Start"
    /\ Receive(c, m)

\* The handler has returned (or panicked); the next message may be taken.
Return(c) ==
    /\ task[c].pc = "done"
    /\ task' = [task EXCEPT ![c] = IdleTask]
    /\ UNCHANGED <<session, bio, totalXp, users, pending, flow, events, dropped>>

\* No branch of the tree takes the message.
unhandled(c) ==
    /\ task[c].pc = "unhandled"
    /\ task' = [task EXCEPT ![c] = Finish(@, "unhandled", <<>>)]
    /\ UNCHANGED <<session, bio, totalXp, users, pending, flow, events, dropped>>

help(c) ==
    /\ task[c].pc = "help"
    /\ task' = [task EXCEPT ![c] = Finish(@, "Ok", <<Say("These commands are supported:")>>)]
    /\ UNCHANGED <<session, bio, totalXp, users, pending, flow, events, dropped>>

cancel(c) ==
    /\ task[c].pc = "cancel"
    /\ session' = [session EXCEPT ![c] = Start]
    /\ task' = [task EXCEPT ![c] = Finish(@, "Ok", <<Say("Cancelling.")>>)]
    /\ UNCHANGED <<bio, totalXp, users, pending, flow, events, dropped>>

\* contract.<write>(...).send().await?: the call is submitted, or the
\* request fails.
Send(c, t, call, ok, msgs) ==
    IF ok
    THEN /\ Len(pending) < MaxPending
         /\ pending' = Append(pending, call)
         /\ task' = [task EXCEPT ![c] = Finish([t EXCEPT !.writes = Append(@, call)], "Ok", msgs)]
    ELSE /\ task' = [task EXCEPT ![c] = Finish(Request([t EXCEPT !.writes = Append(@, call)], FALSE), "Err", <<>>)]
         /\ UNCHANGED pending

(***************************************************************************)
(* check                                                                   *)
(***************************************************************************)
\* xp_to_mint = total_xp - xp_in_contract.as_u64(), a u64 subtraction: when
\* it overflows, a build with overflow checks panics and a build without
\* them wraps.  The set of possible outcomes.
xp_to_mint(total_xp, xp_in_contract) ==
    IF total_xp >= xp_in_contract THEN {[panic |-> FALSE, amount |-> total_xp - xp_in_contract, wrapped |-> FALSE]}
    ELSE {[panic |-> TRUE, amount |-> 0, wrapped |-> FALSE], [panic |-> FALSE, amount |-> xp_in_contract - total_xp, wrapped |-> TRUE]}

check_report(t, mint) ==
    IF mint.panic THEN Finish(t, "panic", <<>>)
    ELSE Finish(t, "Ok", (IF t.address_in_contract # t.address THEN <<Say("It looks like your address has changed.")>> ELSE <<>>) \o <<SayAmount("you can mint XP as POD", mint.amount, mint.wrapped)>>)

check(c) ==
    /\ task[c].pc = "check"
    /\ \E ok \in BOOLEAN :
        LET t == Request([task[c] EXCEPT !.sent = <<Say("Okay, loading your Duolingo profile...")>>], ok)
            found == get_user_uid_and_address(t.username, ok)
        IN  task' = [task EXCEPT ![c] = IF found.some THEN [t EXCEPT !.pc = "check_total_xp", !.uid = found.uid, !.address = found.address, !.issued = {"total_xp"}] ELSE Finish(t, "Ok", <<Say("User not found")>>)]
    /\ UNCHANGED <<session, bio, totalXp, users, pending, flow, events, dropped>>

check_total_xp(c) ==
    /\ task[c].pc = "check_total_xp"
    /\ \E ok \in BOOLEAN :
        LET t == Request(task[c], ok)
        IN  task' = [task EXCEPT ![c] = IF ok THEN [t EXCEPT !.pc = "check_users", !.total_xp = totalXp[t.uid], !.got = t.got \cup {"total_xp"}, !.issued = t.issued \cup {"users"}] ELSE Finish(t, "Err", <<>>)]
    /\ UNCHANGED <<session, bio, totalXp, users, pending, flow, events, dropped>>

\* check_users with the report of update pasted in: it also submits
\* report_xp when there is XP to mint.
check_users_minting(c) ==
    /\ task[c].pc = "check_users"
    /\ \E ok \in BOOLEAN :
        LET t == Request(task[c], ok)
            read == [t EXCEPT !.address_in_contract = users[t.uid].address, !.xp_in_contract = users[t.uid].xp, !.got = t.got \cup {"users"}]
        IN  IF ok
            THEN /\ \E mint \in xp_to_mint(read.total_xp, read.xp_in_contract) : task' = [task EXCEPT ![c] = check_report(read, mint)]
                 /\ pending' = IF read.total_xp > read.xp_in_contract /\ Len(pending) < MaxPending THEN Append(pending, Call("report_xp", t.uid, NoAddress, read.total_xp)) ELSE pending
            ELSE /\ task' = [task EXCEPT ![c] = Finish(t, "Err", <<>>)]
                 /\ UNCHANGED pending
    /\ UNCHANGED <<session, bio, totalXp, users, flow, events, dropped>>

check_users(c) ==
    /\ task[c].pc = "check_users"
    /\ \E ok \in BOOLEAN :
        LET t == Request(task[c], ok)
            read == [t EXCEPT !.address_in_contract = users[t.uid].address, !.xp_in_contract = users[t.uid].xp, !.got = t.got \cup {"users"}]
        IN  IF ok THEN \E mint \in xp_to_mint(read.total_xp, read.xp_in_contract) : task' = [task EXCEPT ![c] = check_report(read, mint)]
            ELSE task' = [task EXCEPT ![c] = Finish(t, "Err", <<>>)]
    /\ UNCHANGED <<session, bio, totalXp, users, pending, flow, events, dropped>>

(***************************************************************************)
(* update                                                                  *)
(***************************************************************************)
update(c) ==
    /\ task[c].pc = "update"
    /\ \E ok \in BOOLEAN :
        LET t == Request([task[c] EXCEPT !.sent = <<Say("Okay, loading your Duolingo profile...")>>], ok)
            found == get_user_uid_and_address(t.username, ok)
        IN  task' = [task EXCEPT ![c] = IF found.some THEN [t EXCEPT !.pc = "update_total_xp", !.uid = found.uid, !.address = found.address, !.issued = {"total_xp"}] ELSE Finish(t, "Err", <<>>)]
    /\ UNCHANGED <<session, bio, totalXp, users, pending, flow, events, dropped>>

update_total_xp(c) ==
    /\ task[c].pc = "update_total_xp"
    /\ \E ok \in BOOLEAN :
        LET t == Request(task[c], ok)
        IN  task' = [task EXCEPT ![c] = IF ok THEN [t EXCEPT !.pc = "update_users", !.total_xp = totalXp[t.uid], !.got = t.got \cup {"total_xp"}, !.issued = t.issued \cup {"users"}, !.sent = t.sent \o <<SayAmount("Wow, you have XP!", totalXp[t.uid], FALSE), Say("Minting your rewards...")>>] ELSE Finish(t, "Err", <<>>)]
    /\ UNCHANGED <<session, bio, totalXp, users, pending, flow, events, dropped>>

\* The comparison turned round: nothing to mint unless the contract is ahead.
nothing_to_mint_unless_behind(total_xp, xp_in_contract) == xp_in_contract <= total_xp

\* if xp_in_contract == total_xp.into() { ... return Ok(()) }
nothing_to_mint(total_xp, xp_in_contract) == xp_in_contract = total_xp

update_users(c) ==
    /\ task[c].pc = "update_users"
    /\ \E ok \in BOOLEAN :
        LET t == Request(task[c], ok)
            read == [t EXCEPT !.address_in_contract = users[t.uid].address, !.xp_in_contract = users[t.uid].xp, !.got = t.got \cup {"users"}]
        IN  task' = [task EXCEPT ![c] =
                IF ~ok THEN Finish(t, "Err", <<>>)
                ELSE IF nothing_to_mint(read.total_xp, read.xp_in_contract) THEN Finish(read, "Ok", <<Say("You need to earn more XP to receive rewards.")>>)
                ELSE [read EXCEPT !.pc = "update_report_xp"]]
    /\ UNCHANGED <<session, bio, totalXp, users, pending, flow, events, dropped>>

\* The amount update shows: (U256::from(total_xp) - xp_in_contract).as_u64().
minted(total_xp, xp_in_contract) == total_xp - xp_in_contract

\* contract.report_xp(uid, total_xp).send(), then the message with the
\* amount; the U256 subtraction panics when it overflows.
update_report_xp(c) ==
    /\ task[c].pc = "update_report_xp"
    /\ \E ok \in BOOLEAN :
        LET t == task[c]
            call == Call("report_xp", t.uid, NoAddress, t.total_xp)
        IN  IF ok /\ t.total_xp < t.xp_in_contract
            THEN /\ Len(pending) < MaxPending
                 /\ pending' = Append(pending, call)
                 /\ task' = [task EXCEPT ![c] = Finish([t EXCEPT !.writes = Append(@, call)], "panic", <<>>)]
            ELSE Send(c, t, call, ok, <<SayAmount("Congratulations, you received POD!", minted(t.total_xp, t.xp_in_contract), FALSE)>>)
    /\ UNCHANGED <<session, bio, totalXp, users, flow, events, dropped>>

(***************************************************************************)
(* unregister                                                              *)
(***************************************************************************)
unregister(c) ==
    /\ task[c].pc = "unregister"
    /\ \E ok \in BOOLEAN :
        LET t == Request([task[c] EXCEPT !.sent = <<Say("Okay, loading your Duolingo profile...")>>], ok)
            found == get_user_uid_and_address(t.username, ok)
        IN  task' = [task EXCEPT ![c] = IF found.some THEN [t EXCEPT !.pc = "user_unregister", !.uid = found.uid, !.address = found.address, !.sent = t.sent \o <<Say("Unregistering you from the contract...")>>] ELSE Finish(t, "Err", <<>>)]
    /\ UNCHANGED <<session, bio, totalXp, users, pending, flow, events, dropped>>

\* unregister that also empties the dialogue storage: every conversation
\* is back in ChatState::Start.
unregister_clearing_sessions(c) ==
    /\ task[c].pc = "user_unregister"
    /\ \E ok \in BOOLEAN : Send(c, task[c], Call("unregister", task[c].uid, NoAddress, 0), ok, <<Say("You've been unregistered. Sorry to see you go!")>>)
    /\ session' = [d \in Chats |-> Start]
    /\ UNCHANGED <<bio, totalXp, users, flow, events, dropped>>

unregister_user_unregister(c) ==
    /\ task[c].pc = "user_unregister"
    /\ \E ok \in BOOLEAN : Send(c, task[c], Call("unregister", task[c].uid, NoAddress, 0), ok, <<Say("You've been unregistered. Sorry to see you go!")>>)
    /\ UNCHANGED <<session, bio, totalXp, users, flow, events, dropped>>

(***************************************************************************)
(* register                                                                *)
(***************************************************************************)
register(c) ==
    /\ task[c].pc = "register"
    /\ \E ok \in BOOLEAN :
        LET t == Request([task[c] EXCEPT !.sent = <<Say("Okay, loading your Duolingo profile...")>>], ok)
            found == get_user_uid_and_address(t.username, ok)
        IN  task' = [task EXCEPT ![c] = IF found.some THEN [t EXCEPT !.pc = "try_join", !.uid = found.uid, !.address = found.address, !.issued = {"users", "total_xp"}, !.sent = t.sent \o <<Say("Found you! Checking your registration...")>>] ELSE Finish(t, "Err", <<>>)]
    /\ UNCHANGED <<session, bio, totalXp, users, pending, flow, events, dropped>>

\* The two tests of register in the other order: the zero sentinel differs
\* from the address of the bio, so it is taken for a changed address.
register_branch_zero_unchecked(t) ==
    IF t.address_in_contract # t.address THEN [t EXCEPT !.pc = "user_update_address", !.sent = t.sent \o <<Say("Looks like we need to update your profile...")>>]
    ELSE IF t.address_in_contract = ZeroAddress THEN [t EXCEPT !.pc = "user_register", !.sent = t.sent \o <<Say("Registering with the contract...")>>]
    ELSE Finish(t, "Ok", <<Say("Already registered!")>>)

\* register without the test of the zero sentinel on its own: it registers
\* whenever the on-chain address is not the address of the bio.
register_branch_register_on_change(t) ==
    IF t.address_in_contract # t.address THEN [t EXCEPT !.pc = "user_register", !.sent = t.sent \o <<Say("Registering with the contract...")>>]
    ELSE Finish(t, "Ok", <<Say("Already registered!")>>)

\* The branch register takes once both reads of try_join! have completed.
register_branch(t) ==
    IF t.address_in_contract = ZeroAddress THEN [t EXCEPT !.pc = "user_register", !.sent = t.sent \o <<Say("Registering with the contract...")>>]
    ELSE IF t.address_in_contract # t.address THEN [t EXCEPT !.pc = "user_update_address", !.sent = t.sent \o <<Say("Looks like we need to update your profile...")>>]
    ELSE Finish(t, "Ok", <<Say("Already registered!")>>)

\* try_join!: the two reads are in flight together and complete in either
\* order; the first error ends the join.
try_join(t, ok) == IF ~ok THEN Finish(t, "Err", <<>>) ELSE IF t.got = {"users", "total_xp"} THEN register_branch(t) ELSE t

register_users(c) ==
    /\ task[c].pc = "try_join"
    /\ "users" \notin task[c].got
    /\ \E ok \in BOOLEAN :
        LET t == Request(task[c], ok)
        IN  task' = [task EXCEPT ![c] = try_join(IF ok THEN [t EXCEPT !.got = t.got \cup {"users"}, !.address_in_contract = users[t.uid].address, !.xp_in_contract = users[t.uid].xp] ELSE t, ok)]
    /\ UNCHANGED <<session, bio, totalXp, users, pending, flow, events, dropped>>

\* register_total_xp with the XP of the pass left as it was: the off-chain
\* XP is fetched but the value the pass began with is used.
register_total_xp_unread(c) ==
    /\ task[c].pc = "try_join"
    /\ "total_xp" \notin task[c].got
    /\ \E ok \in BOOLEAN :
        LET t == Request(task[c], ok)
        IN  task' = [task EXCEPT ![c] = try_join(IF ok THEN [t EXCEPT !.got = t.got \cup {"total_xp"}] ELSE t, ok)]
    /\ UNCHANGED <<session, bio, totalXp, users, pending, flow, events, dropped>>

register_total_xp(c) ==
    /\ task[c].pc = "try_join"
    /\ "total_xp" \notin task[c].got
    /\ \E ok \in BOOLEAN :
        LET t == Request(task[c], ok)
        IN  task' = [task EXCEPT ![c] = try_join(IF ok THEN [t EXCEPT !.got = t.got \cup {"total_xp"}, !.total_xp = totalXp[t.uid]] ELSE t, ok)]
    /\ UNCHANGED <<session, bio, totalXp, users, pending, flow, events, dropped>>

register_user_register(c) ==
    /\ task[c].pc = "user_register"
    /\ \E ok \in BOOLEAN : Send(c, task[c], Call("register", task[c].uid, task[c].address, task[c].total_xp), ok, <<Say("Registered!")>>)
    /\ UNCHANGED <<session, bio, totalXp, users, flow, events, dropped>>

register_user_update_address(c) ==
    /\ task[c].pc = "user_update_address"
    /\ \E ok \in BOOLEAN : Send(c, task[c], Call("update_address", task[c].uid, task[c].address, 0), ok, <<Say("Updated!")>>)
    /\ UNCHANGED <<session, bio, totalXp, users, flow, events, dropped>>

(***************************************************************************)
(* The linking flow.                                                       *)
(***************************************************************************)
begin_link(c) ==
    /\ task[c].pc = "link"
    /\ session' = [session EXCEPT ![c] = LinkReceiveUsername]
    /\ task' = [task EXCEPT ![c] = Finish(@, "Ok", <<Say("Let's get your Duolingo account set up."), Say("First, what's your username?")>>)]
    /\ UNCHANGED <<bio, totalXp, users, pending, flow, events, dropped>>

link_receive_username(c) ==
    /\ task[c].pc = "link_receive_username"
    /\ IF ~task[c].msg.has_text
       THEN /\ task' = [task EXCEPT ![c] = Finish(@, "Ok", <<Say("Please send a username.")>>)]
            /\ UNCHANGED <<session, flow>>
       ELSE \E ok \in BOOLEAN :
            LET t == Request(task[c], ok)
                found_user == get_user_uid_and_maybe_address(t.msg.text, ok)
            IN  /\ flow' = [flow EXCEPT ![c] = Interrupted(Counted(@, "fetch"), ok)]
                /\ IF found_user.some
                   THEN /\ session' = [session EXCEPT ![c] = LinkReceiveAddress(t.msg.text)]
                        /\ task' = [task EXCEPT ![c] = Finish(t, "Ok", <<Say("Great to meet you!"), Say("Now, we need to link your profile.")>> \o (IF found_user.address # NoAddress THEN <<Say("It looks like your profile is already linked.")>> ELSE <<>>) \o <<Say("What is your Taiko address?")>>)]
                   ELSE /\ task' = [task EXCEPT ![c] = Finish(t, "Ok", <<Say("User not found. Please try again.")>>)]
                        /\ UNCHANGED session
    /\ UNCHANGED <<bio, totalXp, users, pending, events, dropped>>

link_receive_address(c) ==
    /\ task[c].pc = "link_receive_address"
    /\ LET t == task[c]
           address == parse_checksummed(t.msg.text)
       IN  IF ~t.msg.has_text
           THEN /\ task' = [task EXCEPT ![c] = Finish(t, "Ok", <<Say("Please send an address.")>>)]
                /\ UNCHANGED <<session, flow>>
           ELSE /\ flow' = [flow EXCEPT ![c] = Counted(@, "parse")]
                /\ IF address # NoAddress
                   THEN /\ session' = [session EXCEPT ![c] = LinkReceiveJwt(t.state.username, address)]
                        /\ task' = [task EXCEPT ![c] = Finish(t, "Ok", <<Say("Okay, now please send your JWT.")>>)]
                   ELSE /\ task' = [task EXCEPT ![c] = Finish(t, "Ok", <<Say("Invalid address. Please try again.")>>)]
                        /\ UNCHANGED session
    /\ UNCHANGED <<bio, totalXp, users, pending, events, dropped>>

\* link_receive_jwt up to the first request of add_address_to_profile:
\* get_uid_from_jwt unwraps, so a text it cannot decode panics.
link_receive_jwt(c) ==
    /\ task[c].pc = "link_receive_jwt"
    /\ LET t == task[c]
           uid == get_uid_from_jwt(t.msg.text)
           got_it == [t EXCEPT !.sent = <<Say("Got it! Linking profile...")>>, !.address = t.state.address]
       IN  IF ~t.msg.has_text
           THEN /\ task' = [task EXCEPT ![c] = Finish(t, "Ok", <<Say("Please send a JWT.")>>)]
                /\ UNCHANGED flow
           ELSE /\ flow' = [flow EXCEPT ![c] = Counted(@, "decode")]
                /\ task' = [task EXCEPT ![c] = IF uid = NotFound THEN Finish(got_it, "panic", <<>>) ELSE [got_it EXCEPT !.pc = "get_user_by_uid", !.uid = uid]]
    /\ UNCHANGED <<session, bio, totalXp, users, pending, events, dropped>>

\* get_user_by_uid(http, uid, jwt).await.unwrap().bio
add_address_to_profile_get(c) ==
    /\ task[c].pc = "get_user_by_uid"
    /\ \E ok \in BOOLEAN :
        LET t == Request(task[c], ok)
        IN  /\ task' = [task EXCEPT ![c] = IF ok THEN [t EXCEPT !.pc = "patch", !.original_bio = bio[t.uid]] ELSE Finish(t, "panic", <<>>)]
            /\ flow' = [flow EXCEPT ![c] = Interrupted(@, ok)]
    /\ UNCHANGED <<session, bio, totalXp, users, pending, events, dropped>>

\* The bio add_address_to_profile writes.
new_bio(original_bio, address) ==
    IF is_match(original_bio) THEN replace(original_bio, to_checksum(address))
    ELSE Append(original_bio, to_checksum(address))

\* The PATCH of the bio with dialogue.update(ChatState::Start) moved before
\* add_address_to_profile: the session is reset whether or not the PATCH
\* succeeds.
add_address_to_profile_patch_after_update(c) ==
    /\ task[c].pc = "patch"
    /\ \E ok \in BOOLEAN :
        LET call == Call("write_bio", task[c].uid, task[c].address, 0)
            t == Request([task[c] EXCEPT !.writes = Append(@, call)], ok)
        IN  /\ flow' = [flow EXCEPT ![c] = Interrupted(Counted(@, "patch"), ok)]
            /\ session' = [session EXCEPT ![c] = Start]
            /\ IF ok
               THEN /\ bio' = [bio EXCEPT ![t.uid] = new_bio(t.original_bio, t.address)]
                    /\ task' = [task EXCEPT ![c] = Finish(t, "Ok", <<Say("Profile linked!")>>)]
               ELSE /\ task' = [task EXCEPT ![c] = Finish(t, "panic", <<>>)]
                    /\ UNCHANGED bio
    /\ UNCHANGED <<totalXp, users, pending, events, dropped>>

\* The PATCH of the bio, and the rest of link_receive_jwt after it.
add_address_to_profile_patch(c) ==
    /\ task[c].pc = "patch"
    /\ \E ok \in BOOLEAN :
        LET call == Call("write_bio", task[c].uid, task[c].address, 0)
            t == Request([task[c] EXCEPT !.writes = Append(@, call)], ok)
        IN  /\ flow' = [flow EXCEPT ![c] = Interrupted(Counted(@, "patch"), ok)]
            /\ IF ok
               THEN /\ bio' = [bio EXCEPT ![t.uid] = new_bio(t.original_bio, t.address)]
                    /\ session' = [session EXCEPT ![c] = Start]
                    /\ task' = [task EXCEPT ![c] = Finish(t, "Ok", <<Say("Profile linked!")>>)]
               ELSE /\ task' = [task EXCEPT ![c] = Finish(t, "panic", <<>>)]
                    /\ UNCHANGED <<session, bio>>
    /\ UNCHANGED <<totalXp, users, pending, events, dropped>>

(***************************************************************************)
(* The environment: the learner's XP changes, and the chain mines or       *)
(* drops the transactions submitted to it, oldest first.                   *)
(***************************************************************************)
\* (Only the XP of a profile with a linked address is ever read.)
XpChange(uid, xp) ==
    /\ is_match(bio[uid])
    /\ xp # totalXp[uid]
    /\ totalXp' = [totalXp EXCEPT ![uid] = xp]
    /\ UNCHANGED <<session, task, bio, users, pending, flow, events, dropped>>

\* The contract's state after a transaction.
Apply(call) ==
    LET record == users[call.id]
        registered == record.address # ZeroAddress
    IN  CASE call.op = "register" /\ ~registered -> [users EXCEPT ![call.id] = [address |-> call.address, xp |-> call.xp]]
          [] call.op = "update_address" /\ registered -> [users EXCEPT ![call.id].address = call.address]
          [] call.op = "report_xp" /\ registered -> [users EXCEPT ![call.id].xp = call.xp]
          [] call.op = "unregister" /\ registered -> [users EXCEPT ![call.id] = Unregistered]
          [] OTHER -> users

Mine ==
    /\ pending # <<>>
    /\ users' = Apply(Head(pending))
    /\ pending' = Tail(pending)
    /\ UNCHANGED <<session, task, bio, totalXp, flow, events, dropped>>

Drop ==
    /\ pending # <<>>
    /\ pending' = Tail(pending)
    /\ UNCHANGED <<session, task, bio, totalXp, users, flow, events, dropped>>

\* Drop, with the dropped transaction recorded.
DropRecorded ==
    /\ pending # <<>>
    /\ pending' = Tail(pending)
    /\ dropped' = Head(pending)
    /\ UNCHANGED <<session, task, bio, totalXp, users, flow, events>>

\* The steps of the four reconciliation handlers.
ReconStep(c) ==
    \/ check(c)
    \/ check_total_xp(c)
    \/ check_users(c)
    \/ update(c)
    \/ update_total_xp(c)
    \/ update_users(c)
    \/ update_report_xp(c)
    \/ unregister(c)
    \/ unregister_user_unregister(c)
    \/ register(c)
    \/ register_users(c)
    \/ register_total_xp(c)
    \/ register_user_register(c)
    \/ register_user_update_address(c)

\* The steps of the handlers of the linking flow.
LinkStep(c) ==
    \/ unhandled(c)
    \/ help(c)
    \/ cancel(c)
    \/ begin_link(c)
    \/ link_receive_username(c)
    \/ link_receive_address(c)
    \/ link_receive_jwt(c)
    \/ add_address_to_profile_get(c)
    \/ add_address_to_profile_patch(c)

Environment ==
    \/ \E uid \in Ids, xp \in XpValues : XpChange(uid, xp)
    \/ Mine
    \/ Drop

\* Reconciliation: one conversation sends check, register, update and
\* unregister commands, one after the other.
NextRecon ==
    \/ \E m \in Messages : events < MaxPasses /\ ReceiveCommand("c1", m)
    \/ Return("c1")
    \/ ReconStep("c1")
    \/ Environment

SpecRecon == InitRecon /\ [][NextRecon]_vars

\* Reconciliation by two conversations at once.
NextRace ==
    \/ \E c \in Chats, m \in Messages : events < MaxRacePasses /\ ReceiveCommand(c, m)
    \/ \E c \in Chats : Return(c)
    \/ \E c \in Chats : ReconStep(c)
    \/ Environment

SpecRace == InitRecon /\ [][NextRace]_vars

\* Linking: one conversation walks the linking flow.
NextLink ==
    \/ \E m \in Messages : ReceiveLink("c1", m)
    \/ Return("c1")
    \/ LinkStep("c1")

SpecLink == InitLink /\ [][NextLink]_vars

\* The steps of register.
RegisterStep(c) ==
    \/ register(c)
    \/ register_users(c)
    \/ register_total_xp(c)
    \/ register_user_register(c)
    \/ register_user_update_address(c)

\* Register commands from two conversations at once.
NextRegisterRace ==
    \/ \E c \in Chats, h \in Handles : events < MaxRacePasses /\ Receive(c, TextMessage(CommandText("register", h)))
    \/ \E c \in Chats : Return(c)
    \/ \E c \in Chats : RegisterStep(c)
    \/ Environment

SpecRegisterRace == InitRecon /\ [][NextRegisterRace]_vars

\* Register commands of one conversation, one after the other, while the
\* chain mines or drops what they submit.
NextSelfHeal ==
    \/ \E h \in Handles : events < MaxPasses /\ Receive("c1", TextMessage(CommandText("register", h)))
    \/ Return("c1")
    \/ RegisterStep("c1")
    \/ \E uid \in Ids, xp \in XpValues : XpChange(uid, xp)
    \/ Mine
    \/ DropRecorded

SpecSelfHeal == InitRecon /\ [][NextSelfHeal]_vars

\* The whole dispatch tree for one conversation: any message in any state,
\* with the registry as the bot found it (submitted transactions stay
\* pending).
NextBot ==
    \/ \E m \in Messages : events < MaxBotEvents /\ Receive("c1", m)
    \/ Return("c1")
    \/ LinkStep("c1")
    \/ ReconStep("c1")

SpecBot == InitRecon /\ [][NextBot]_vars

\* The messages of two conversations about alice: every command, her
\* username, an address, her credential, and a message without text.
DirectoryMessages == {TextMessage(t) : t \in {CommandText(cmd, "") : cmd \in PlainCommands} \cup {CommandText(cmd, "alice") : cmd \in UsernameCommands} \cup {Word("alice"), AddressText("0x2222", "checksum"), Jwt("ok", Directory("alice"))}} \cup {OtherMessage}

\* alice has linked and has XP; she is not registered, or is registered
\* with another address and less XP.
InitDirectory ==
    /\ InitBot
    /\ bio = [uid \in Ids |-> InitialBio(uid)]
    /\ totalXp = [uid \in Ids |-> IF uid = Directory("alice") THEN MaxXp ELSE 0]
    /\ \E r \in {Unregistered, [address |-> "0x2222", xp |-> 1]} : users = [uid \in Ids |-> IF uid = Directory("alice") THEN r ELSE Unregistered]

\* The whole dispatch tree for two conversations at once.
NextDirectory ==
    \/ \E c \in Chats, m \in DirectoryMessages : events < MaxBotEvents /\ Receive(c, m)
    \/ \E c \in Chats : Return(c)
    \/ \E c \in Chats : LinkStep(c)
    \/ \E c \in Chats : ReconStep(c)

SpecDirectory == InitDirectory /\ [][NextDirectory]_vars

\* Linking, whatever the bio the credential's user has.
SpecRewrite == InitRewrite /\ [][NextLink]_vars

(***************************************************************************)
(* Properties.                                                             *)
(***************************************************************************)
\* The endpoint that handles the message of a task.
Endpoint(t) == handler(t.state, t.msg)

\* Both reads of a pass, the off-chain XP and the on-chain record, are in.
ReadBoth(t) == t.got = {"users", "total_xp"}

Last(seq) == seq[Len(seq)]

Floor0(n) == IF n < 0 THEN 0 ELSE n

\* C1: an update pass that has read off-chain XP x and on-chain XP r with
\* x <= r submits no write, and ends Ok with "You need to earn more XP".
C1_UpdateNothingToMint ==
    \A c \in Chats :
        LET t == task[c]
        IN  (Endpoint(t) = "update" /\ ReadBoth(t) /\ ~t.failed /\ t.total_xp <= t.xp_in_contract) =>
                /\ t.writes = <<>>
                /\ t.pc = "done" => (t.result = "Ok" /\ Last(t.sent) = Say("You need to earn more XP to receive rewards."))

\* C2: an update pass for username that has read x and r with x > r ends
\* having submitted exactly report_xp(id, x), id the id of username, and no
\* other write; unless that request failed it ends Ok and shows x - r.
C2_UpdateReportsOnce ==
    \A c \in Chats :
        LET t == task[c]
        IN  (Endpoint(t) = "update" /\ ReadBoth(t) /\ t.total_xp > t.xp_in_contract) =>
                /\ t.pc \in {"update_report_xp", "done"}
                /\ t.pc = "update_report_xp" => t.writes = <<>>
                /\ t.pc = "done" => t.writes = <<Call("report_xp", Directory(t.username.val), NoAddress, t.total_xp)>>
                /\ (t.pc = "done" /\ ~t.failed) => (t.result = "Ok" /\ Last(t.sent) = SayAmount("Congratulations, you received POD!", t.total_xp - t.xp_in_contract, FALSE))

C2_Witness ==
    \E c \in Chats :
        /\ Endpoint(task[c]) = "update" /\ task[c].pc = "done" /\ task[c].result = "Ok"
        /\ task[c].total_xp = 2 /\ task[c].xp_in_contract = 1
        /\ Len(task[c].writes) = 1

\* C3: whenever the chain applies a report_xp(id, v) call that changes the
\* record of id, v is at least the XP recorded for id before it, so the
\* recorded XP never decreases.
C3_ReportedXpNeverDecreases ==
    [][(pending # <<>> /\ Head(pending).op = "report_xp" /\ users' # users) => Head(pending).xp >= users[Head(pending).id].xp]_vars

\* C4: a register pass that has read the on-chain address a and found the
\* address b in the bio ends with exactly register(id, b, off-chain XP) when
\* a is zero, with exactly update_address(id, b) when a is neither zero nor
\* b, and with no write and "Already registered!" when a = b.
C4_RegisterOrUpdate ==
    \A c \in Chats :
        LET t == task[c]
        IN  (Endpoint(t) = "register" /\ ReadBoth(t) /\ t.pc = "done") =>
                /\ t.uid = Directory(t.username.val)
                /\ t.address_in_contract = ZeroAddress => t.writes = <<Call("register", t.uid, t.address, t.total_xp)>>
                /\ (t.address_in_contract # ZeroAddress /\ t.address_in_contract # t.address) => t.writes = <<Call("update_address", t.uid, t.address, 0)>>
                /\ t.address_in_contract = t.address => (t.writes = <<>> /\ t.result = "Ok" /\ Last(t.sent) = Say("Already registered!"))

C4_Witness ==
    \E c \in Chats :
        /\ Endpoint(task[c]) = "register" /\ task[c].pc = "done" /\ task[c].result = "Ok"
        /\ task[c].address_in_contract \in Addresses /\ task[c].address_in_contract # task[c].address
        /\ Len(task[c].writes) = 1

\* C5: a check pass that has read off-chain XP x and on-chain XP r ends Ok
\* and shows max(0, x - r).
C5_CheckDeltaFloored ==
    \A c \in Chats :
        LET t == task[c]
        IN  (Endpoint(t) = "check" /\ ReadBoth(t)) =>
                (t.pc = "done" /\ t.result = "Ok" /\ Last(t.sent) = SayAmount("you can mint XP as POD", Floor0(t.total_xp - t.xp_in_contract), FALSE))

\* C6: no step of a check pass submits a transaction or changes the
\* on-chain records, the bios or the off-chain XP, and the pass issues no
\* write call.
C6_CheckWritesNothing ==
    [][\A c \in Chats : (Endpoint(task[c]) = "check" /\ task'[c] # task[c]) =>
            (users' = users /\ pending' = pending /\ bio' = bio /\ totalXp' = totalXp /\ task'[c].writes = <<>>)]_vars

C6_Witness ==
    \E c \in Chats :
        /\ Endpoint(task[c]) = "check" /\ task[c].pc = "done" /\ task[c].result = "Ok"
        /\ ReadBoth(task[c]) /\ task[c].total_xp > task[c].xp_in_contract
        /\ users[task[c].uid].address # ZeroAddress

\* C7: a check of a username that resolves to a user whose bio holds no
\* address does not answer "User not found".
C7_CheckTellsNoAddressFromNotFound ==
    \A c \in Chats :
        LET t == task[c]
            uid == Directory(t.username.val)
        IN  (Endpoint(t) = "check" /\ t.pc = "done" /\ ~t.failed /\ uid # NotFound) =>
                (~is_match(bio[uid]) => Last(t.sent) # Say("User not found"))

\* C8: a cancel command received in a state other than Start leaves the
\* session in Start, and a link command after it leaves the session in
\* LinkReceiveUsername, which carries no username and no address.
C8_CancelReturnsToStart ==
    \A c \in Chats :
        (task[c].pc = "done" /\ ~task[c].failed) =>
            /\ flow[c].cancelled => session[c] = Start
            /\ (flow[c].after_cancel /\ filter_command(task[c].msg) /\ task[c].msg.text.val = "link") => session[c] = LinkReceiveUsername

\* C9: with no failing request, the messages link, a username that
\* resolves, a checksummed address and a well-formed credential, received in
\* Start in this order, leave the session in LinkReceiveUsername, in
\* LinkReceiveAddress with the username, in LinkReceiveJwt with the username
\* and the address, and in Start, after exactly one username lookup, one
\* address parse, one credential decode and one bio write.
C9_LinkSequence ==
    \A c \in Chats :
        LET t == task[c]
        IN  t.pc = "done" =>
                /\ flow[c].stage = 1 => session[c] = LinkReceiveUsername
                /\ flow[c].stage = 2 => session[c] = LinkReceiveAddress(t.msg.text)
                /\ flow[c].stage = 3 => session[c] = LinkReceiveJwt(t.state.username, parse_checksummed(t.msg.text))
                /\ flow[c].stage = 4 => (session[c] = Start /\ flow[c].fetch = 1 /\ flow[c].parse = 1 /\ flow[c].decode = 1 /\ flow[c].patch = 1)

\* C10: in LinkReceiveUsername, a text that is the username of a user moves
\* the session to LinkReceiveAddress with that username, whatever the bio of
\* the user holds; any other text leaves it in LinkReceiveUsername.
C10_ResolvedUsernameAdvances ==
    \A c \in Chats :
        LET t == task[c]
        IN  (t.pc = "done" /\ t.state.tag = "LinkReceiveUsername" /\ t.msg.has_text /\ ~t.failed) =>
                session[c] = (IF Resolves(t.msg.text) THEN LinkReceiveAddress(t.msg.text) ELSE LinkReceiveUsername)

\* The embedded addresses of a bio: the positions ETH_ADDRESS matches.
Embedded(b) == {i \in 1..Len(b) : ETH_ADDRESS(b[i])}

\* The linking flow has written the bio of the credential's user.
Rewritten(t) == Endpoint(t) = "link_receive_jwt" /\ t.pc = "done" /\ t.result = "Ok" /\ t.writes # <<>>

\* C11: once the linking flow has rewritten a bio for the address a, the bio
\* holds exactly one embedded address, a, when the bio it read held one or
\* more, and is the bio it read with a appended when that held none.
C11_RewriteLeavesOneAddress ==
    \A c \in Chats :
        LET t == task[c]
        IN  Rewritten(t) =>
                IF is_match(t.original_bio)
                THEN Cardinality(Embedded(bio[t.uid])) = 1 /\ \A i \in Embedded(bio[t.uid]) : bio[t.uid][i] = to_checksum(t.address)
                ELSE bio[t.uid] = t.original_bio \o <<to_checksum(t.address)>>

\* C12: once the linking flow has rewritten a bio for the address a, the
\* first-match extractor applied to the bio yields a.
C12_ExtractAfterRewrite ==
    \A c \in Chats :
        LET t == task[c]
        IN  Rewritten(t) => (find(bio[t.uid]) # 0 /\ parse_address(bio[t.uid][find(bio[t.uid])]) = t.address)

C12_Witness ==
    \E c \in Chats :
        LET t == task[c]
        IN  /\ Rewritten(t)
            /\ Cardinality(Embedded(t.original_bio)) = 2
            /\ \A i \in Embedded(t.original_bio) : parse_address(t.original_bio[i]) # t.address

C14_FailureIsTold ==
    \A c \in Chats :
        (task[c].pc = "done" /\ task[c].failed) => (task[c].result = "Ok" /\ task[c].sent # <<>>)

\* C15: an unregister of a username that resolves to the id uid, with no
\* failing request, submits exactly unregister(uid), whatever the bio of the
\* user holds.
C15_UnregisterResolved ==
    \A c \in Chats :
        LET t == task[c]
            uid == Directory(t.username.val)
        IN  (Endpoint(t) = "unregister" /\ t.pc = "done" /\ ~t.failed /\ uid # NotFound) =>
                t.writes = <<Call("unregister", uid, NoAddress, 0)>>

\* C16: in LinkReceiveAddress, a text of 0x and 40 hex digits in lower
\* case, in upper case or in its checksum casing moves the session to
\* LinkReceiveJwt with the same username and the address; any other text
\* leaves the session as it is and is answered "Invalid address".
C16_AddressCasings ==
    \A c \in Chats :
        LET t == task[c]
        IN  (t.pc = "done" /\ t.state.tag = "LinkReceiveAddress" /\ t.msg.has_text) =>
                IF ETH_ADDRESS(t.msg.text) /\ t.msg.text.arg \in {"checksum", "lower", "upper"}
                THEN session[c] = LinkReceiveJwt(t.state.username, parse_address(t.msg.text))
                ELSE session[c] = t.state /\ Last(t.sent) = Say("Invalid address. Please try again.")

\* C17: in LinkReceiveJwt, a text that does not decode as a credential ends
\* the handler normally, with the session as it was, a message to the user
\* and no bio write.
C17_MalformedCredentialHandled ==
    \A c \in Chats :
        LET t == task[c]
        IN  (t.pc = "done" /\ t.state.tag = "LinkReceiveJwt" /\ t.msg.has_text /\ get_uid_from_jwt(t.msg.text) = NotFound) =>
                (t.result = "Ok" /\ session[c] = t.state /\ t.writes = <<>> /\ Last(t.sent) # Say("Got it! Linking profile..."))

\* C18: a link, register, update, check, unregister or help command that
\* arrives in a state other than Start is not given to the handler of that
\* state as the username, address or credential it waits for, and leaves
\* the session as it was.
C18_CommandsNotConsumed ==
    \A c \in Chats :
        LET t == task[c]
        IN  (t.pc # "idle" /\ t.state.tag # "Start" /\ filter_command(t.msg) /\ t.msg.text.val # "cancel") =>
                /\ Endpoint(t) \notin {"link_receive_username", "link_receive_address", "link_receive_jwt"}
                /\ t.pc = "done" => session[c] = t.state

\* C19: in a check, register or update pass, when the read of the off-chain
\* XP or the read of the on-chain record completes, both reads have already
\* been issued.
C19_ReadsConcurrent ==
    [][\A c \in Chats : (Endpoint(task[c]) \in {"check", "register", "update"} /\ task'[c].got # task[c].got) =>
            task[c].issued = {"users", "total_xp"}]_vars

\* The handler has submitted a register call for the id uid.
SubmittedRegister(t, uid) == \E i \in 1..Len(t.writes) : t.writes[i].op = "register" /\ t.writes[i].id = uid /\ ~t.failed

\* C20, as claimed: two register passes in different conversations never
\* both read the zero sentinel for an id and both submit register for it.
C20_NoDoubleRegister ==
    \A c, d \in Chats : \A uid \in Ids :
        (c # d /\ SubmittedRegister(task[c], uid) /\ SubmittedRegister(task[d], uid)) =>
            ~(task[c].address_in_contract = ZeroAddress /\ task[d].address_in_contract = ZeroAddress)

\* C20, amended: a pass submits register(id, b, x) only after it has itself
\* read the zero sentinel for id, b being the address of the bio and x the
\* off-chain XP it read; nothing excludes a second pass that read the zero
\* sentinel before the first call was applied.
C20_RegisterOnlyAfterZeroRead ==
    \A c \in Chats :
        LET t == task[c]
        IN  \A i \in 1..Len(t.writes) : t.writes[i].op = "register" =>
                /\ Endpoint(t) = "register" /\ ReadBoth(t)
                /\ t.address_in_contract = ZeroAddress
                /\ t.writes = <<Call("register", t.uid, t.address, t.total_xp)>>

\* Two passes have both submitted register for alice, and the call of the
\* first has been applied.
C20_Witness ==
    \E c, d \in Chats :
        /\ c # d
        /\ SubmittedRegister(task[c], Directory("alice")) /\ SubmittedRegister(task[d], Directory("alice"))
        /\ users[Directory("alice")].address # ZeroAddress
        /\ pending # <<>> /\ Head(pending).op = "register"

\* C21: every register pass starts with nothing read and nothing written;
\* the on-chain record and the off-chain XP it decides on are the values
\* that its own reads find at the time they complete, so a pass that reads
\* after a register call for its id was dropped, the id being still
\* unregistered, reads the zero sentinel; and a pass that has read the zero
\* sentinel goes on to submit register(id, bio address, XP read in this
\* pass) and, unless that request fails, ends having submitted exactly it.
C21_SelfHealing ==
    [][\A c \in Chats :
        LET t == task[c]
            n == task'[c]
        IN  Endpoint(n) = "register" =>
                /\ t.pc = "idle" => (n.got = {} /\ n.writes = <<>>)
                /\ "users" \in n.got \ t.got => (n.address_in_contract = users[n.uid].address /\ n.xp_in_contract = users[n.uid].xp)
                /\ "total_xp" \in n.got \ t.got => n.total_xp = totalXp[n.uid]
                /\ ("users" \in n.got \ t.got /\ dropped.op = "register" /\ dropped.id = n.uid /\ users[n.uid] = Unregistered) => n.address_in_contract = ZeroAddress
                /\ (ReadBoth(n) /\ ~n.failed /\ n.address_in_contract = ZeroAddress) =>
                        /\ n.pc \in {"user_register", "done"}
                        /\ n.pc = "user_register" => n.writes = <<>>
                        /\ n.pc = "done" => n.writes = <<Call("register", n.uid, n.address, n.total_xp)>>]_vars

\* A register call for alice was dropped, and a later pass has submitted
\* register for alice again, with another XP than the dropped call carried.
C21_Witness ==
    \E c \in Chats :
        LET t == task[c]
        IN  /\ dropped.op = "register" /\ dropped.id = Directory("alice")
            /\ Endpoint(t) = "register" /\ t.pc = "done" /\ ~t.failed
            /\ t.uid = dropped.id /\ t.total_xp # dropped.xp
            /\ t.writes = <<Call("register", t.uid, t.address, t.total_xp)>>
            /\ pending = t.writes
            /\ users[t.uid] = Unregistered

\* The endpoints that write the dialogue storage.
SessionWriters == {"link", "cancel", "link_receive_username", "link_receive_address", "link_receive_jwt"}

\* C22: the session of a conversation changes only in a step of that
\* conversation's own handler, and only when the handler is begin_link,
\* cancel or one of the three linking handlers; no step of check, register,
\* update, unregister or help changes any session.
C22_SessionOwnership ==
    [][\A c \in Chats :
        /\ session'[c] # session[c] => (task'[c] # task[c] /\ Endpoint(task[c]) \in SessionWriters)
        /\ (task'[c] # task[c] /\ Endpoint(task[c]) \in {"check", "register", "update", "unregister", "help"}) => session' = session]_vars

\* One conversation is in the middle of linking while the other has
\* completed a reconciliation pass that submitted a write.
C22_Witness ==
    \E c, d \in Chats :
        /\ c # d
        /\ session[c] = LinkReceiveAddress(Word("alice")) /\ task[c].pc = "idle"
        /\ Endpoint(task[d]) \in {"register", "update", "unregister"} /\ task[d].pc = "done" /\ task[d].result = "Ok" /\ task[d].writes # <<>>
        /\ session[d] = Start

====
